---- MODULE Spec2Model ----
(***************************************************************************)
(* Model of shared_state.py: the retry/failover loop                       *)
(* try_process_with_retries over the site-state store, and the per-worker  *)
(* append log save_live_cc_to_json.                                        *)
(***************************************************************************)
EXTENDS Integers, Sequences, FiniteSets, TLC

(***************************************************************************)
(* Bounds                                                                  *)
(***************************************************************************)
\* number of distinct endpoints an owner's store can hold
NumEndpoints == 2
\* largest max_tries value a caller passes
MaxTriesArg == 3
\* number of save_live_cc_to_json calls one caller makes
MaxCalls == 3
\* seconds the wall clock can advance
MaxClock == 1
\* calls each of two concurrent callers makes
MaxWorkerCalls == 2
\* characters of whitespace put before and after a proxy line
MaxPad == 1

(***************************************************************************)
(* Python values.  A value is a tagged tuple; a string is a sequence of    *)
(* words (single-space separated), so "x in reason" is containment of a    *)
(* contiguous run of words and lower() acts word by word.                  *)
(***************************************************************************)
Absent == <<"absent">>
PyNone == <<"None">>
PyTrue == <<"bool", "True">>
PyFalse == <<"bool", "False">>
PyInt(d) == <<"int", d>>
PyStr(ws) == <<"str">> \o ws

IsStr(v) == v[1] = "str"
WordsOf(v) == Tail(v)

\* Python truth value of a value
Truthy(v) ==
    CASE v[1] = "None" -> FALSE
      [] v[1] = "bool" -> v[2] = "True"
      [] v[1] = "int"  -> v[2] # "0"
      [] v[1] = "str"  -> Len(v) > 1
      [] OTHER -> FALSE

\* str(v)
StrOf(v) ==
    CASE v[1] = "str" -> v
      [] v[1] = "None" -> PyStr(<<"None">>)
      [] OTHER -> PyStr(<<v[2]>>)

\* str.lower() of one word
LowerWord(w) ==
    CASE w = "Timeout" -> "timeout"
      [] w = "Site" -> "site"
      [] w = "Response" -> "response"
      [] w = "Failed" -> "failed"
      [] w = "Stripe" -> "stripe"
      [] w = "Card" -> "card"
      [] w = "Invalid" -> "invalid"
      [] OTHER -> w

Lower(ws) == [i \in 1..Len(ws) |-> LowerWord(ws[i])]

\* sub in ws
Contains(ws, sub) ==
    \E i \in 0..(Len(ws) - Len(sub)) :
        \A j \in 1..Len(sub) : ws[i + j] = sub[j]

(***************************************************************************)
(* Dispatch results.  A result is either a dict over the keys status,      *)
(* reason, site_dead (a missing key is Absent) or a non-dict value.        *)
(***************************************************************************)
DictOf(st, rs, sd) ==
    [isdict |-> TRUE, val |-> Absent, status |-> st, reason |-> rs, site_dead |-> sd]
NonDict(v) ==
    [isdict |-> FALSE, val |-> v, status |-> Absent, reason |-> Absent, site_dead |-> Absent]

\* dict.get(k)
Get(r, k) == IF r[k] = Absent THEN PyNone ELSE r[k]

\* "not result"
NotResult(r) ==
    IF r.isdict
    THEN r.status = Absent /\ r.reason = Absent /\ r.site_dead = Absent
    ELSE ~Truthy(r.val)

APPROVED == PyStr(<<"APPROVED">>)
DECLINED == PyStr(<<"DECLINED">>)
ERROR == PyStr(<<"ERROR">>)

\* values the dispatch collaborator hands back as its result
RawResults ==
    { NonDict(PyNone),
      NonDict(PyStr(<<"Timeout">>)),
      NonDict(PyStr(<<"Card", "declined">>)),
      DictOf(APPROVED, Absent, Absent),
      DictOf(DECLINED, PyStr(<<"Card", "declined">>), PyFalse),
      DictOf(DECLINED, PyStr(<<"Site", "Response", "Failed">>), Absent),
      DictOf(ERROR, PyStr(<<"request", "failed", "Stripe">>), Absent),
      DictOf(ERROR, PyStr(<<"request", "failed">>), Absent),
      DictOf(ERROR, PyStr(<<"gateway", "timeout">>), PyFalse),
      DictOf(DECLINED, Absent, PyTrue),
      DictOf(Absent, PyStr(<<"Card", "declined">>), Absent),
      DictOf(Absent, Absent, Absent),
      DictOf(DECLINED, PyInt("5"), Absent) }

\* result = {"status": "DECLINED", "reason": str(result or "Invalid result")}
Normalize(raw) ==
    IF raw.isdict
    THEN raw
    ELSE DictOf(DECLINED,
                StrOf(IF Truthy(raw.val) THEN raw.val ELSE PyStr(<<"Invalid", "result">>)),
                Absent)

\* result.get("reason") or ""
ReasonOperand(r) ==
    IF Truthy(Get(r, "reason")) THEN Get(r, "reason") ELSE PyStr(<<>>)

\* .lower() exists on strings only
ReasonRaises(r) == ~IsStr(ReasonOperand(r))

\* reason = (result.get("reason") or "").lower()
ReasonOf(r) == Lower(WordsOf(ReasonOperand(r)))

\* the dead-site test of the attempt loop
IsDead(r) ==
    \/ Truthy(Get(r, "site_dead"))
    \/ Contains(ReasonOf(r), <<"site", "response", "failed">>)
    \/ (Contains(ReasonOf(r), <<"request", "failed">>) /\ Contains(ReasonOf(r), <<"stripe">>))
    \/ Contains(ReasonOf(r), <<"timeout">>)

(***************************************************************************)
(* The site-state store of one owner and the sessions of                   *)
(* try_process_with_retries over it.                                       *)
(***************************************************************************)
EndpointNames == <<"siteA", "siteB", "siteC", "siteD">>
Endpoints == {EndpointNames[i] : i \in 1..NumEndpoints}
\* the id None
NoSite == "None"
\* ids the dispatch collaborator can hand back
DispatchSites == Endpoints \cup {NoSite}

Range(q) == {q[i] : i \in 1..Len(q)}

\* the keys of state[owner]["sites"]: an ordered dict has no key twice
StoreContents ==
    {q \in UNION {[1..n -> Endpoints] : n \in 0..NumEndpoints} :
        \A i, j \in 1..Len(q) : i # j => q[i] # q[j]}

\* the max_tries argument: <<>> when the caller passes none
MaxTriesArgs == {<<>>} \cup {<<n>> : n \in (-1)..MaxTriesArg}

SessionIds == {1, 2}

\* list.remove(x): drops the first occurrence
RECURSIVE RemoveFirst(_, _)
RemoveFirst(q, x) ==
    IF q = <<>> THEN <<>>
    ELSE IF Head(q) = x THEN Tail(q)
    ELSE <<Head(q)>> \o RemoveFirst(Tail(q), x)

VARIABLES
    store,       \* site ids the store holds for the owner, in order
    trace,       \* the calls made to the collaborators, in order
    pc,          \* where each session stands
    arg,         \* each session's max_tries argument
    loaded,      \* what _load_state gave each session
    user_sites,  \* the working list
    dead_sites,  \* sites marked dead, in marking order
    tries,
    max_tries,
    site_url,
    result,
    idx,         \* position of the cleanup loop in dead_sites
    rmFailed,    \* a removal of this session raised or returned false
    atExit,      \* working list, site and result when the attempt loop ended
    firstLive,   \* the first dispatch classified not dead: its number, site and result
    ret          \* the pair returned

retryVars == <<store, trace, pc, arg, loaded, user_sites, dead_sites, tries,
               max_tries, site_url, result, idx, rmFailed, atExit, firstLive, ret>>

\* the state of the append log
VARIABLES
    folder,     \* the owner's folder exists
    lock,       \* holder of _livecc_folder_lock, 0 when free
    files,      \* the files of the folder
    clock,      \* the wall clock, in seconds
    logs,       \* what was logged
    lpc,        \* where each caller stands in its call
    wk,         \* the worker id each caller passes
    ncall,      \* calls each caller has started
    live_data,
    existing,
    wpos,       \* tokens of the dump written so far
    prior,      \* the worker's target and temp file when the call began
    fd,         \* where the file each caller holds open is linked
    faults,     \* what failed in the caller's current call
    clean       \* no call of the caller met a failure so far

logVars == <<folder, lock, files, clock, logs, lpc, wk, ncall, live_data,
             existing, wpos, fd, prior, faults, clean>>

\* the state of one call of parse_proxy_line
VARIABLES
    given,      \* the shape and tokens the line was composed from
    line,       \* the argument
    parsed,     \* what the call returned or raised
    ppc         \* "ready" before the call, "done" after it

parseVars == <<given, line, parsed, ppc>>

vars == <<retryVars, logVars, parseVars>>

NoResult == NonDict(PyNone)
Pair(site, res) == [site |-> site, result |-> res]
Snapshot(us, su, r) == [user_sites |-> us, site_url |-> su, result |-> r]

\* return None, {"status": "DECLINED", "reason": "No sites configured", "site_dead": True}
NoSitesReturn ==
    Pair(NoSite, DictOf(DECLINED, PyStr(<<"No", "sites", "configured">>), PyTrue))

\* return None, {"status": "DECLINED", "reason": "All sites failed or removed", "site_dead": True}
AllFailedReturn ==
    Pair(NoSite, DictOf(DECLINED, PyStr(<<"All", "sites", "failed", "or", "removed">>), PyTrue))

\* _load_state either raises or hands back the stored mapping
LoadOutcomes(st) == {[raised |-> TRUE, sites |-> <<>>], [raised |-> FALSE, sites |-> st]}

\* try: user_sites = list(...keys())  except Exception: user_sites = []
UserSitesOf(outcome) == IF outcome.raised THEN <<>> ELSE outcome.sites

NoSitesAlways(us) == FALSE
\* if not user_sites
NoSites(us) == us = <<>>

\* max_tries = max_tries or len(user_sites)
EffectiveMaxTries(a, us) == IF a = <<>> \/ a[1] = 0 THEN Len(us) ELSE a[1]

\* while tries < max_tries and user_sites
LoopGuard(t, mt, us) == t < mt /\ us # <<>>

AfterAttemptNoBreak(dead) == "loop"
\* continue on a dead site, break otherwise
AfterAttempt(dead) == IF dead THEN "loop" ELSE "cleanup"

\* remove_user_site: drops the site from the store when it is there
RemoveSite(st, site) == RemoveFirst(st, site)

OnDeadImmediate(st, s, site) ==
    [store |-> RemoveSite(st, site), calls |-> << <<"remove", s, site>> >>]
\* marking a site dead inside the loop: no call to the store, which stays as it is
OnDead(st, s, site) == [store |-> st, calls |-> <<>>]

AfterRemovePropagate(raised) == IF raised THEN "raised" ELSE "cleanup"
\* the cleanup loop's except clause swallows a raising removal
AfterRemove(raised) == "cleanup"

\* the final fallback and the normal return
FinalReturn(us, su, r) ==
    IF us = <<>> /\ (NotResult(r) \/ Truthy(Get(r, "site_dead")))
    THEN AllFailedReturn
    ELSE Pair(su, r)

RetryStart(active) ==
    /\ store \in StoreContents
    /\ trace = <<>>
    /\ arg \in [SessionIds -> MaxTriesArgs]
    /\ \A s \in SessionIds \ active : arg[s] = <<>>
    /\ pc = [s \in SessionIds |-> IF s \in active THEN "start" ELSE "off"]
    /\ loaded = [s \in SessionIds |-> [raised |-> FALSE, sites |-> <<>>]]
    /\ user_sites = [s \in SessionIds |-> <<>>]
    /\ dead_sites = [s \in SessionIds |-> <<>>]
    /\ tries = [s \in SessionIds |-> 0]
    /\ max_tries = [s \in SessionIds |-> 0]
    /\ site_url = [s \in SessionIds |-> NoSite]
    /\ result = [s \in SessionIds |-> NoResult]
    /\ idx = [s \in SessionIds |-> 1]
    /\ rmFailed = [s \in SessionIds |-> FALSE]
    /\ atExit = [s \in SessionIds |-> Snapshot(<<>>, NoSite, NoResult)]
    /\ firstLive = [s \in SessionIds |-> [n |-> 0, pair |-> Pair(NoSite, NoResult)]]
    /\ ret = [s \in SessionIds |-> Pair(NoSite, NoResult)]

\* load the store once; return at once when there is no site
Load(s) ==
    /\ pc[s] = "start"
    /\ \E o \in LoadOutcomes(store) :
        /\ loaded' = [loaded EXCEPT ![s] = o]
        /\ user_sites' = [user_sites EXCEPT ![s] = UserSitesOf(o)]
        /\ IF NoSites(UserSitesOf(o))
           THEN /\ pc' = [pc EXCEPT ![s] = "done"]
                /\ ret' = [ret EXCEPT ![s] = NoSitesReturn]
                /\ UNCHANGED max_tries
           ELSE /\ pc' = [pc EXCEPT ![s] = "loop"]
                /\ max_tries' = [max_tries EXCEPT ![s] = EffectiveMaxTries(arg[s], UserSitesOf(o))]
                /\ UNCHANGED ret
    /\ UNCHANGED <<store, trace, arg, dead_sites, tries, site_url, result, idx, rmFailed, atExit, firstLive>>
    /\ UNCHANGED <<logVars, parseVars>>

\* one pass of the attempt loop: dispatch, normalize, classify; the dispatch
\* collaborator hands back one of the ids sites and one of the values raws
AttemptWith(s, sites, raws) ==
    /\ pc[s] = "loop"
    /\ LoopGuard(tries[s], max_tries[s], user_sites[s])
    /\ \E site \in sites, raw \in raws :
        LET r == Normalize(raw) IN
        /\ tries' = [tries EXCEPT ![s] = @ + 1]
        /\ site_url' = [site_url EXCEPT ![s] = site]
        /\ result' = [result EXCEPT ![s] = r]
        /\ IF ReasonRaises(r)
           THEN /\ pc' = [pc EXCEPT ![s] = "raised"]
                /\ trace' = Append(trace, <<"dispatch", s, site>>)
                /\ UNCHANGED <<store, dead_sites, user_sites, atExit, firstLive>>
           ELSE IF IsDead(r)
           THEN /\ dead_sites' = [dead_sites EXCEPT ![s] = Append(@, site)]
                /\ user_sites' = [user_sites EXCEPT ![s] = RemoveFirst(@, site)]
                /\ store' = OnDead(store, s, site).store
                /\ trace' = Append(trace, <<"dispatch", s, site>>) \o OnDead(store, s, site).calls
                /\ pc' = [pc EXCEPT ![s] = AfterAttempt(TRUE)]
                /\ UNCHANGED <<atExit, firstLive>>
           ELSE /\ pc' = [pc EXCEPT ![s] = AfterAttempt(FALSE)]
                /\ atExit' = [atExit EXCEPT ![s] =
                                 IF AfterAttempt(FALSE) = "cleanup"
                                 THEN Snapshot(user_sites[s], site, r) ELSE @]
                /\ firstLive' = [firstLive EXCEPT ![s] =
                                    IF @.n = 0
                                    THEN [n |-> tries[s] + 1, pair |-> Pair(site, r)] ELSE @]
                /\ trace' = Append(trace, <<"dispatch", s, site>>)
                /\ UNCHANGED <<store, dead_sites, user_sites>>
    /\ UNCHANGED <<arg, loaded, max_tries, idx, rmFailed, ret>>
    /\ UNCHANGED <<logVars, parseVars>>

Attempt(s) == AttemptWith(s, DispatchSites, RawResults)

\* the while condition fails
ExitLoop(s) ==
    /\ pc[s] = "loop"
    /\ ~LoopGuard(tries[s], max_tries[s], user_sites[s])
    /\ pc' = [pc EXCEPT ![s] = "cleanup"]
    /\ atExit' = [atExit EXCEPT ![s] = Snapshot(user_sites[s], site_url[s], result[s])]
    /\ UNCHANGED <<store, trace, arg, loaded, user_sites, dead_sites, tries,
                   max_tries, site_url, result, idx, rmFailed, firstLive, ret>>
    /\ UNCHANGED <<logVars, parseVars>>

\* one pass of the cleanup loop: remove_user_site(chat_id, s) under try/except;
\* outcomes tells whether the removal can raise
RemoveWith(s, outcomes) ==
    /\ pc[s] = "cleanup"
    /\ idx[s] <= Len(dead_sites[s])
    /\ \E raised \in outcomes :
        LET site == dead_sites[s][idx[s]] IN
        /\ trace' = Append(trace, <<"remove", s, site>>)
        /\ store' = IF raised THEN store ELSE RemoveSite(store, site)
        /\ rmFailed' = [rmFailed EXCEPT ![s] = @ \/ raised \/ site \notin Range(store)]
        /\ pc' = [pc EXCEPT ![s] = AfterRemove(raised)]
        /\ idx' = [idx EXCEPT ![s] = @ + 1]
    /\ UNCHANGED <<arg, loaded, user_sites, dead_sites, tries, max_tries,
                   site_url, result, atExit, firstLive, ret>>
    /\ UNCHANGED <<logVars, parseVars>>

Remove(s) == RemoveWith(s, BOOLEAN)

\* the final fallback or the normal return
Return(s) ==
    /\ pc[s] = "cleanup"
    /\ idx[s] > Len(dead_sites[s])
    /\ ret' = [ret EXCEPT ![s] = FinalReturn(user_sites[s], site_url[s], result[s])]
    /\ pc' = [pc EXCEPT ![s] = "done"]
    /\ UNCHANGED <<store, trace, arg, loaded, user_sites, dead_sites, tries,
                   max_tries, site_url, result, idx, rmFailed, atExit, firstLive>>
    /\ UNCHANGED <<logVars, parseVars>>

(***************************************************************************)
(* The append log save_live_cc_to_json.  A file's text is a sequence of    *)
(* JSON tokens, written token by token; a caller makes its calls one after *)
(* the other, call k of caller c carrying the payload <<c, k>>.            *)
(***************************************************************************)
CallerIds == {1, 2}
WorkerIds == {1, 2}

TargetPathOneFile(w) == <<"target", 1>>
\* file_path = os.path.join(folder, f"Live_cc_{user_id}_{worker_id}.json")
TargetPath(w) == <<"target", w>>
\* tmp_path = f"{file_path}.tmp"
TmpPath(w) == <<"tmp", w>>
Paths == {TargetPath(w) : w \in WorkerIds} \cup {TmpPath(w) : w \in WorkerIds}

NoFile == [exists |-> FALSE, text |-> <<>>]
File(text) == [exists |-> TRUE, text |-> text]

\* datetime.now().strftime("%Y-%m-%d %H:%M:%S")
Strftime(t) == <<"Y-m-d", "H:M:S", t>>

\* the dict a caller passes, and live_data["timestamp"] = ...
LiveData(c, k) == [payload |-> <<c, k>>, timestamp |-> <<>>]
Stamped(rec, t) == [rec EXCEPT !.timestamp = Strftime(t)]

LB == <<"[">>
RB == <<"]">>
COMMA == <<",">>
Obj(rec) == <<"obj", rec.payload, rec.timestamp>>
RecOf(tok) == [payload |-> tok[2], timestamp |-> tok[3]]

RECURSIVE DumpItems(_)
DumpItems(items) ==
    IF items = <<>> THEN <<>>
    ELSE IF Len(items) = 1 THEN <<Obj(items[1])>>
    ELSE <<Obj(items[1]), COMMA>> \o DumpItems(Tail(items))

\* json.dump(existing, f, ...): the tokens written
JsonDump(items) == <<LB>> \o DumpItems(items) \o <<RB>>

InnerOf(text) == SubSeq(text, 2, Len(text) - 1)
IsArrayText(text) ==
    /\ Len(text) >= 2
    /\ text[1] = LB
    /\ text[Len(text)] = RB
    /\ \/ Len(text) = 2
       \/ /\ Len(text) % 2 = 1
          /\ \A i \in 1..Len(InnerOf(text)) :
                IF i % 2 = 1 THEN InnerOf(text)[i][1] = "obj"
                ELSE InnerOf(text)[i] = COMMA
IsObjectText(text) == Len(text) = 1 /\ text[1][1] = "obj"
ItemsOf(text) == [i \in 1..(Len(text) \div 2) |-> RecOf(text[2 * i])]

EmptyList == [kind |-> "list", items |-> <<>>]

\* json.load(f): a list, another JSON value, or a decoding error
JsonLoad(text) ==
    IF IsArrayText(text) THEN [kind |-> "list", items |-> ItemsOf(text)]
    ELSE IF IsObjectText(text) THEN [kind |-> "other", items |-> <<>>]
    ELSE [kind |-> "error", items |-> <<>>]

ReadExistingNever(f, fail) == EmptyList
\* the existing array: [] when the file is absent, unreadable or undecodable
ReadExisting(f, fail) ==
    IF ~f.exists THEN EmptyList
    ELSE IF fail \/ JsonLoad(f.text).kind = "error" THEN EmptyList
    ELSE JsonLoad(f.text)

WritePathInPlace(w) == TargetPath(w)
\* open(tmp_path, "w"): the array is written to the temporary sibling
WritePath(w) == TmpPath(w)

\* os.replace(src, dst)
Renamed(fs, src, dst) ==
    IF src = dst THEN fs ELSE [fs EXCEPT ![dst] = fs[src], ![src] = NoFile]

\* a caller holds no open file; the file it holds open has no name any more
Closed == <<"closed", 0>>
Unlinked == <<"unlinked", 0>>

\* os.replace(src, dst) seen from the open files: the file named src is now
\* named dst, the file that was named dst has no name left
Relinked(fds, src, dst) ==
    [e \in DOMAIN fds |->
        IF src = dst THEN fds[e]
        ELSE IF fds[e] = src THEN dst
        ELSE IF fds[e] = dst THEN Unlinked
        ELSE fds[e]]

\* bytes never written between the end of a file and a write beyond it
Hole == <<"hole">>

\* f.write at the writer's own offset: over what is there, or beyond the end
WriteAt(text, pos, tok) ==
    IF pos <= Len(text) THEN [text EXCEPT ![pos] = tok]
    ELSE text \o [i \in 1..(pos - Len(text) - 1) |-> Hole] \o <<tok>>

\* logging.warning / logging.error / logging.info of call k of caller c
LogWarning(lg, c, k) == lg \cup {<<"warning", c, k>>}
LogError(lg, c, k) == lg \cup {<<"error", c, k>>}
LogInfo(lg, c, k) == lg \cup {<<"info", c, k>>}


RetryOff ==
    /\ RetryStart({})
    /\ store = <<>>

\* the callers before their first call, over the files fs
LogStartOver(active, workers, fs) ==
    /\ folder = (\E p \in Paths : fs[p].exists)
    /\ lock = 0
    /\ files = fs
    /\ clock = 0
    /\ logs = {}
    /\ lpc = [c \in CallerIds |-> IF c \in active THEN "idle" ELSE "off"]
    /\ wk = workers
    /\ ncall = [c \in CallerIds |-> 0]
    /\ live_data = [c \in CallerIds |-> LiveData(c, 0)]
    /\ existing = [c \in CallerIds |-> <<>>]
    /\ wpos = [c \in CallerIds |-> 0]
    /\ fd = [c \in CallerIds |-> Closed]
    /\ prior = [c \in CallerIds |-> [target |-> NoFile, tmp |-> NoFile]]
    /\ faults = [c \in CallerIds |-> {}]
    /\ clean = [c \in CallerIds |-> TRUE]

\* the callers before their first call, the owner's folder not yet made
LogStart(active, workers) == LogStartOver(active, workers, [p \in Paths |-> NoFile])

LogOff == LogStart({}, [c \in CallerIds |-> c])

\* the call returns after a failure f was caught and logged
Fail(c, f, lg) ==
    /\ logs' = lg
    /\ faults' = [faults EXCEPT ![c] = @ \cup {f}]
    /\ clean' = [clean EXCEPT ![c] = FALSE]
    /\ lpc' = [lpc EXCEPT ![c] = "idle"]

\* a caller enters save_live_cc_to_json, for at most limit calls
BeginWith(c, limit) ==
    /\ lpc[c] = "idle"
    /\ ncall[c] < limit
    /\ ncall' = [ncall EXCEPT ![c] = @ + 1]
    /\ live_data' = [live_data EXCEPT ![c] = LiveData(c, ncall[c] + 1)]
    /\ prior' = [prior EXCEPT ![c] = [target |-> files[TargetPath(wk[c])],
                                      tmp |-> files[TmpPath(wk[c])]]]
    /\ faults' = [faults EXCEPT ![c] = {}]
    /\ lpc' = [lpc EXCEPT ![c] = "lock"]
    /\ UNCHANGED <<folder, lock, files, clock, logs, wk, existing, wpos, clean>>
    /\ UNCHANGED fd
    /\ UNCHANGED <<retryVars, parseVars>>

Begin(c) == BeginWith(c, MaxCalls)

\* with _livecc_folder_lock
Acquire(c) ==
    /\ lpc[c] = "lock"
    /\ lock = 0
    /\ lock' = c
    /\ lpc' = [lpc EXCEPT ![c] = "mkdir"]
    /\ UNCHANGED <<folder, files, clock, logs, wk, ncall, live_data, existing,
                   wpos, prior, faults, clean>>
    /\ UNCHANGED fd
    /\ UNCHANGED <<retryVars, parseVars>>

\* os.makedirs(folder, exist_ok=True) under the lock, released on leaving the block
Mkdir(c) ==
    /\ lpc[c] = "mkdir"
    /\ lock' = 0
    /\ \E fail \in BOOLEAN :
        IF fail
        THEN /\ Fail(c, "mkdir", LogWarning(logs, c, ncall[c]))
             /\ UNCHANGED folder
        ELSE /\ folder' = TRUE
             /\ lpc' = [lpc EXCEPT ![c] = "stamp"]
             /\ UNCHANGED <<logs, faults, clean>>
    /\ UNCHANGED <<files, clock, wk, ncall, live_data, existing, wpos, prior>>
    /\ UNCHANGED fd
    /\ UNCHANGED <<retryVars, parseVars>>

\* live_data["timestamp"] = now
Stamp(c) ==
    /\ lpc[c] = "stamp"
    /\ live_data' = [live_data EXCEPT ![c] = Stamped(@, clock)]
    /\ lpc' = [lpc EXCEPT ![c] = "read"]
    /\ UNCHANGED <<folder, lock, files, clock, logs, wk, ncall, existing, wpos,
                   prior, faults, clean>>
    /\ UNCHANGED fd
    /\ UNCHANGED <<retryVars, parseVars>>

\* read the existing array and append the record to it
Read(c) ==
    /\ lpc[c] = "read"
    /\ \E fail \in {FALSE, files[TargetPath(wk[c])].exists} :
        LET got == ReadExisting(files[TargetPath(wk[c])], fail) IN
        IF got.kind # "list"
        THEN /\ Fail(c, "notlist", LogError(logs, c, ncall[c]))
             /\ UNCHANGED existing
        ELSE /\ existing' = [existing EXCEPT ![c] = Append(got.items, live_data[c])]
             /\ faults' = [faults EXCEPT ![c] = IF fail THEN @ \cup {"read"} ELSE @]
             /\ clean' = [clean EXCEPT ![c] = @ /\ ~fail]
             /\ lpc' = [lpc EXCEPT ![c] = "open"]
             /\ UNCHANGED logs
    /\ UNCHANGED <<folder, lock, files, clock, wk, ncall, live_data, wpos, prior>>
    /\ UNCHANGED fd
    /\ UNCHANGED <<retryVars, parseVars>>

\* open(tmp_path, "w") truncates or creates the file
OpenTmp(c) ==
    /\ lpc[c] = "open"
    /\ \E fail \in BOOLEAN :
        IF fail
        THEN /\ Fail(c, "open", LogError(logs, c, ncall[c]))
             /\ UNCHANGED <<files, wpos, fd>>
        ELSE /\ files' = [files EXCEPT ![WritePath(wk[c])] = File(<<>>)]
             /\ fd' = [fd EXCEPT ![c] = WritePath(wk[c])]
             /\ wpos' = [wpos EXCEPT ![c] = 0]
             /\ lpc' = [lpc EXCEPT ![c] = "write"]
             /\ UNCHANGED <<logs, faults, clean>>
    /\ UNCHANGED <<folder, lock, clock, wk, ncall, live_data, existing, prior>>
    /\ UNCHANGED <<retryVars, parseVars>>

\* json.dump writes the next token to the open file, which is closed on
\* leaving the with block
WriteChunk(c) ==
    /\ lpc[c] = "write"
    /\ \E fail \in BOOLEAN :
        IF fail
        THEN /\ Fail(c, "write", LogError(logs, c, ncall[c]))
             /\ fd' = [fd EXCEPT ![c] = Closed]
             /\ UNCHANGED <<files, wpos>>
        ELSE /\ files' = IF fd[c] \in Paths
                         THEN [files EXCEPT ![fd[c]] =
                                  File(WriteAt(@.text, wpos[c] + 1,
                                               JsonDump(existing[c])[wpos[c] + 1]))]
                         ELSE files
             /\ fd' = [fd EXCEPT ![c] =
                          IF wpos[c] + 1 = Len(JsonDump(existing[c])) THEN Closed ELSE @]
             /\ wpos' = [wpos EXCEPT ![c] = @ + 1]
             /\ lpc' = [lpc EXCEPT ![c] =
                           IF wpos[c] + 1 = Len(JsonDump(existing[c]))
                           THEN "replace" ELSE "write"]
             /\ UNCHANGED <<logs, faults, clean>>
    /\ UNCHANGED <<folder, lock, clock, wk, ncall, live_data, existing, prior>>
    /\ UNCHANGED <<retryVars, parseVars>>

\* os.replace(tmp_path, file_path), then logging.info
Replace(c) ==
    /\ lpc[c] = "replace"
    /\ \E fail \in BOOLEAN :
        IF fail \/ ~files[WritePath(wk[c])].exists
        THEN /\ Fail(c, "replace", LogError(logs, c, ncall[c]))
             /\ UNCHANGED <<files, fd>>
        ELSE /\ files' = Renamed(files, WritePath(wk[c]), TargetPath(wk[c]))
             /\ fd' = Relinked(fd, WritePath(wk[c]), TargetPath(wk[c]))
             /\ logs' = LogInfo(logs, c, ncall[c])
             /\ lpc' = [lpc EXCEPT ![c] = "idle"]
             /\ UNCHANGED <<faults, clean>>
    /\ UNCHANGED <<folder, lock, clock, wk, ncall, live_data, existing, wpos, prior>>
    /\ UNCHANGED <<retryVars, parseVars>>

\* the process dies: every call under way stops where it is
Crash ==
    /\ \E c \in CallerIds : lpc[c] \notin {"idle", "off"}
    /\ lpc' = [c \in CallerIds |-> IF lpc[c] = "off" THEN "off" ELSE "idle"]
    /\ faults' = [c \in CallerIds |->
                     IF lpc[c] \in {"idle", "off"} THEN faults[c] ELSE faults[c] \cup {"crash"}]
    /\ clean' = [c \in CallerIds |-> clean[c] /\ lpc[c] \in {"idle", "off"}]
    /\ lock' = 0
    /\ fd' = [c \in CallerIds |-> Closed]
    /\ UNCHANGED <<folder, files, clock, logs, wk, ncall, live_data, existing, wpos, prior>>
    /\ UNCHANGED <<retryVars, parseVars>>

\* a second passes
Tick ==
    /\ clock < MaxClock
    /\ clock' = clock + 1
    /\ UNCHANGED <<folder, lock, files, logs, lpc, wk, ncall, live_data, existing,
                   wpos, prior, faults, clean>>
    /\ UNCHANGED fd
    /\ UNCHANGED <<retryVars, parseVars>>

(***************************************************************************)
(* parse_proxy_line.  A line is a sequence of characters; "tab" stands for *)
(* the tab character.                                                      *)
(***************************************************************************)
Digits == {"0", "1", "2", "3", "4", "5", "6", "7", "8", "9"}
Letters == {"a", "b", "c", "d", "e", "f", "g", "h", "i", "j", "k", "l", "m",
            "n", "o", "p", "q", "r", "s", "t", "u", "v", "w", "x", "y", "z"}
Whitespace == {" ", "tab"}
Chars == Digits \cup Letters \cup Whitespace \cup {"_", ".", "-", ":", "@", "!"}

\* [\w\.-]
HostChars == Digits \cup Letters \cup {"_", ".", "-"}
\* [^:@]
FieldChars == Chars \ {":", "@"}

\* the argument None
NoLine == <<"None">>

\* line.strip()
RECURSIVE Strip(_)
Strip(s) ==
    IF s = <<>> THEN s
    ELSE IF Head(s) \in Whitespace THEN Strip(Tail(s))
    ELSE IF s[Len(s)] \in Whitespace THEN Strip(SubSeq(s, 1, Len(s) - 1))
    ELSE s

\* s.replace(ch, "")
Without(s, ch) == SelectSeq(s, LAMBDA x : x # ch)

\* s.count(ch)
Count(s, ch) == Len(SelectSeq(s, LAMBDA x : x = ch))

\* s.isalpha()
IsAlpha(s) == s # <<>> /\ \A i \in 1..Len(s) : s[i] \in Letters

\* position of the first ch in s, 0 when there is none
IndexOf(s, ch) ==
    IF \E i \in 1..Len(s) : s[i] = ch
    THEN CHOOSE i \in 1..Len(s) : s[i] = ch /\ \A j \in 1..(i - 1) : s[j] # ch
    ELSE 0

DigitValue(d) ==
    CASE d = "0" -> 0 [] d = "1" -> 1 [] d = "2" -> 2 [] d = "3" -> 3 [] d = "4" -> 4
      [] d = "5" -> 5 [] d = "6" -> 6 [] d = "7" -> 7 [] d = "8" -> 8 [] d = "9" -> 9

\* int(s) raises ValueError on a field that is no number
IntRaises(s) == s = <<>> \/ \E i \in 1..Len(s) : s[i] \notin Digits

\* int(s) of a digit string
RECURSIVE IntOf(_)
IntOf(s) ==
    IF s = <<>> THEN 0
    ELSE 10 * IntOf(SubSeq(s, 1, Len(s) - 1)) + DigitValue(s[Len(s)])

\* a group (cls+) or (cls{lo,hi}) of a pattern and the literal after it,
\* "" for the end of the line
Plus(cls, then) == [cls |-> cls, lo |-> 1, hi |-> 1, open |-> TRUE, then |-> then]
Rep(cls, lo, hi, then) == [cls |-> cls, lo |-> lo, hi |-> hi, open |-> FALSE, then |-> then]

\* the five patterns, in the order tried
Patterns ==
    << <<Plus(HostChars, ":"), Rep(Digits, 2, 6, ":"), Plus(FieldChars, ":"), Plus(Chars, "")>>,
       <<Plus(FieldChars, ":"), Plus(FieldChars, "@"), Plus(HostChars, ":"), Rep(Digits, 2, 6, "")>>,
       <<Plus(FieldChars, ":"), Plus(FieldChars, ":"), Plus(HostChars, ":"), Rep(Digits, 2, 6, "")>>,
       <<Plus(HostChars, ":"), Rep(Digits, 2, 6, "@"), Plus(FieldChars, ":"), Plus(FieldChars, "")>>,
       <<Plus(HostChars, ":"), Rep(Digits, 2, 6, "")>> >>

\* re.match(p, line).groups(): no group but the last can hold the literal
\* after it, so each group ends at the first occurrence of that literal
RECURSIVE MatchGroups(_, _)
MatchGroups(s, pat) ==
    IF pat = <<>> THEN [ok |-> s = <<>>, g |-> <<>>]
    ELSE LET grp == Head(pat)
             k == IF grp.then = "" THEN Len(s) + 1 ELSE IndexOf(s, grp.then)
             field == SubSeq(s, 1, k - 1)
             fits == /\ k > 0
                     /\ Len(field) >= grp.lo
                     /\ grp.open \/ Len(field) <= grp.hi
                     /\ \A i \in 1..Len(field) : field[i] \in grp.cls
             more == MatchGroups(SubSeq(s, k + 1, Len(s)), Tail(pat))
         IN  IF fits /\ more.ok
             THEN [ok |-> TRUE, g |-> <<field>> \o more.g]
             ELSE [ok |-> FALSE, g |-> <<>>]

\* a field the returned dict does not have
NoField == <<"absent">>

NoTarget == [kind |-> "none", host |-> NoField, port |-> 0, user |-> NoField, pass |-> NoField]
RaisedValueError == [kind |-> "raised", host |-> NoField, port |-> 0, user |-> NoField, pass |-> NoField]
Target(host, port, user, pass) ==
    [kind |-> "target", host |-> host, port |-> port, user |-> user, pass |-> pass]

\* {"host": host, "port": int(port), "user": user, "pass": pass}
BuildTarget(host, port, user, pass) ==
    IF IntRaises(port) THEN RaisedValueError ELSE Target(host, IntOf(port), user, pass)

\* the field is alphabetic once its dots are removed, or has a dot
HostLike(f) == IsAlpha(Without(f, ".")) \/ Count(f, ".") >= 1

\* the loop over the patterns, from pattern i on
RECURSIVE TryPatterns(_, _)
TryPatterns(l, i) ==
    IF i > Len(Patterns) THEN NoTarget
    ELSE LET m == MatchGroups(l, Patterns[i])
             g == m.g
         IN  IF ~m.ok THEN TryPatterns(l, i + 1)
             ELSE IF Len(g) = 2 THEN BuildTarget(g[1], g[2], NoField, NoField)
             ELSE IF Count(l, "@") > 0 \/ Count(l, ":") > 2
             THEN IF HostLike(g[1]) THEN BuildTarget(g[1], g[2], g[3], g[4])
                  ELSE IF HostLike(g[3]) THEN BuildTarget(g[3], g[4], g[1], g[2])
                  ELSE TryPatterns(l, i + 1)
             ELSE TryPatterns(l, i + 1)

parse_proxy_line(line0) ==
    IF line0 = NoLine \/ line0 = <<>> THEN NoTarget
    ELSE TryPatterns(Without(Strip(line0), " "), 1)

\* tokens the shapes allow
Hosts == { <<"1", ".", "2">>, <<"p", "x">>, <<"p", "1">> }
Ports == { <<"8", "0">>, <<"8", "0", "8", "0">>, <<"0", "0">>, <<"9", "9", "9", "9", "9", "9">> }
Users == { <<"b", "o", "b">>, <<"u", "1">> }
Passes == { <<"p", "w">>, <<"1", "2", "3", "4">>, <<"p", "!">> }

\* whitespace put before and after a line
Pads == UNION {[1..n -> Whitespace] : n \in 0..MaxPad}

\* the line of each shape
Compose(shape, h, p, u, w) ==
    CASE shape = 1 -> h \o <<":">> \o p \o <<":">> \o u \o <<":">> \o w
      [] shape = 2 -> u \o <<":">> \o w \o <<"@">> \o h \o <<":">> \o p
      [] shape = 3 -> u \o <<":">> \o w \o <<":">> \o h \o <<":">> \o p
      [] shape = 4 -> h \o <<":">> \o p \o <<"@">> \o u \o <<":">> \o w
      [] shape = 5 -> h \o <<":">> \o p

Given(shape, h, p, u, w, lpad, rpad) ==
    [shape |-> shape, host |-> h, port |-> p, user |-> u, pass |-> w,
     lpad |-> lpad, rpad |-> rpad]

\* lines that were not composed from a shape
NotComposed == Given(0, <<>>, <<>>, <<>>, <<>>, <<>>, <<>>)
OtherLines ==
    { NoLine, <<>>, <<" ">>, <<"x">>, <<"1", ".", "2", ":", "8">>,
      <<"1", ".", "2", ":", "1", "2", "3", "4", "5", "6", "7">>,
      <<"u", "1", ":", "p", "!", ":", "p", "1", ":", "8", "0">>,
      <<"1", ".", "2", " ", ":", " ", "8", "0">> }

ParseOff ==
    /\ ppc = "off"
    /\ given = NotComposed
    /\ line = NoLine
    /\ parsed = NoTarget

ParseStart ==
    /\ ppc = "ready"
    /\ parsed = NoTarget
    /\ \/ /\ given = NotComposed
          /\ line \in OtherLines
       \/ \E shape \in 1..5, h \in Hosts, p \in Ports, u \in Users, w \in Passes,
             lpad \in Pads, rpad \in Pads :
             /\ given = Given(shape, h, p, u, w, lpad, rpad)
             /\ line = lpad \o Compose(shape, h, p, u, w) \o rpad

\* one call parse_proxy_line(line)
Parse ==
    /\ ppc = "ready"
    /\ parsed' = parse_proxy_line(line)
    /\ ppc' = "done"
    /\ UNCHANGED <<given, line>>
    /\ UNCHANGED <<retryVars, logVars>>

InitRetry == RetryStart({1}) /\ LogOff /\ ParseOff

InitLog == RetryOff /\ LogStart({1}, [c \in CallerIds |-> 1]) /\ ParseOff

\* one call of parse_proxy_line on a line of the input space
InitParse == RetryOff /\ LogOff /\ ParseStart

NextParse == Parse

SpecParse == InitParse /\ [][NextParse]_vars

NextLog ==
    \/ Begin(1)
    \/ Acquire(1)
    \/ Mkdir(1)
    \/ Stamp(1)
    \/ Read(1)
    \/ OpenTmp(1)
    \/ WriteChunk(1)
    \/ Replace(1)
    \/ Crash
    \/ Tick

SpecLog == InitLog /\ [][NextLog]_vars

\* Two callers of one owner appending concurrently, each for its own worker.
BeginWorker(c) == BeginWith(c, MaxWorkerCalls)

InitWorkers == RetryOff /\ LogStart(CallerIds, [c \in CallerIds |-> c]) /\ ParseOff

NextWorkers ==
    \/ BeginWorker(1)
    \/ BeginWorker(2)
    \/ Acquire(1)
    \/ Acquire(2)
    \/ Mkdir(1)
    \/ Mkdir(2)
    \/ Stamp(1)
    \/ Stamp(2)
    \/ Read(1)
    \/ Read(2)
    \/ OpenTmp(1)
    \/ OpenTmp(2)
    \/ WriteChunk(1)
    \/ WriteChunk(2)
    \/ Replace(1)
    \/ Replace(2)

SpecWorkers == InitWorkers /\ [][NextWorkers]_vars

\* Two callers of one owner appending concurrently for the same worker: they
\* share the target and the temp path.
InitSameWorker == RetryOff /\ LogStart(CallerIds, [c \in CallerIds |-> 1]) /\ ParseOff

\* the second caller makes one call, which races with any call of the first
BeginOnce(c) == BeginWith(c, 1)

NextSameWorker ==
    \/ BeginWorker(1)
    \/ BeginOnce(2)
    \/ Acquire(1)
    \/ Acquire(2)
    \/ Mkdir(1)
    \/ Mkdir(2)
    \/ Stamp(1)
    \/ Stamp(2)
    \/ Read(1)
    \/ Read(2)
    \/ OpenTmp(1)
    \/ OpenTmp(2)
    \/ WriteChunk(1)
    \/ WriteChunk(2)
    \/ Replace(1)
    \/ Replace(2)

SpecSameWorker == InitSameWorker /\ [][NextSameWorker]_vars

\* One caller appending to a target another writer left behind: an empty
\* file, a truncated array, or a JSON object.
LeftBehind ==
    { <<>>,
      <<LB>>,
      <<LB, Obj(Stamped(LiveData(0, 1), 0))>>,
      <<Obj(Stamped(LiveData(0, 1), 0))>> }

InitLeftBehind ==
    /\ RetryOff
    /\ ParseOff
    /\ \E text \in LeftBehind :
        LogStartOver({1}, [c \in CallerIds |-> 1],
                     [p \in Paths |-> IF p = TargetPath(1) THEN File(text) ELSE NoFile])

SpecLeftBehind == InitLeftBehind /\ [][NextLog]_vars

\* a caller inside a call is a running thread: each of its steps is taken in
\* the end when it stays possible
FairWorkers ==
    /\ SpecWorkers
    /\ \A c \in CallerIds :
        /\ WF_vars(Acquire(c))
        /\ WF_vars(Mkdir(c))
        /\ WF_vars(Stamp(c))
        /\ WF_vars(Read(c))
        /\ WF_vars(OpenTmp(c))
        /\ WF_vars(WriteChunk(c))
        /\ WF_vars(Replace(c))

NextRetry ==
    \/ Load(1)
    \/ Attempt(1)
    \/ ExitLoop(1)
    \/ Remove(1)
    \/ Return(1)

SpecRetry == InitRetry /\ [][NextRetry]_vars

\* Two sessions of one owner over the shared store.  The caller passes no
\* max_tries, remove_user_site does not raise, and dispatch hands back a live
\* result, a result flagged dead, or a result whose reason is no string.
SharedResults ==
    { DictOf(APPROVED, Absent, Absent),
      DictOf(DECLINED, Absent, PyTrue),
      DictOf(DECLINED, PyInt("5"), Absent) }

AttemptShared(s) == AttemptWith(s, DispatchSites, SharedResults)

RemoveShared(s) == RemoveWith(s, {FALSE})

InitShared ==
    /\ RetryStart(SessionIds)
    /\ \A s \in SessionIds : arg[s] = <<>>
    /\ LogOff
    /\ ParseOff

NextShared ==
    \/ Load(1)
    \/ Load(2)
    \/ AttemptShared(1)
    \/ AttemptShared(2)
    \/ ExitLoop(1)
    \/ ExitLoop(2)
    \/ RemoveShared(1)
    \/ RemoveShared(2)
    \/ Return(1)
    \/ Return(2)

SpecShared == InitShared /\ [][NextShared]_vars

(***************************************************************************)
(* Properties of try_process_with_retries                                  *)
(***************************************************************************)
CallsOf(s, op) == SelectSeq(trace, LAMBDA e : e[1] = op /\ e[2] = s)
SitesRemoved(s) == [i \in 1..Len(CallsOf(s, "remove")) |-> CallsOf(s, "remove")[i][3]]
RemoveCount(s, site) == Len(SelectSeq(trace, LAMBDA e : e = <<"remove", s, site>>))
WellFormed(r) == r.isdict /\ r.status \in {APPROVED, DECLINED, ERROR}

\* C1: a session that returned after dispatches that were all classified dead
\* and that emptied the working list returns (None, "All sites failed or
\* removed" with site_dead) and its working list is empty.
C1_AllDeadReturnsAllFailed ==
    \A s \in SessionIds :
        (/\ pc[s] = "done"
         /\ tries[s] > 0
         /\ Len(dead_sites[s]) = tries[s]
         /\ user_sites[s] = <<>>)
        => ret[s] = AllFailedReturn

\* C2: whatever the store, the max_tries argument and the values dispatch
\* hands back, the second component of the returned pair is a dict with a
\* status among APPROVED, DECLINED, ERROR.
C2_ReturnsWellFormedResult ==
    \A s \in SessionIds : pc[s] = "done" => WellFormed(ret[s].result)

\* C3: in a session that returned, every site of the loaded list that was
\* classified dead was passed to remove_user_site exactly once.
C3_EachDeadSiteRemovedOnce ==
    \A s \in SessionIds :
        pc[s] = "done" =>
            \A site \in Range(dead_sites[s]) \cap Range(loaded[s].sites) : RemoveCount(s, site) = 1

\* C4: the first dispatch classified not dead is the last dispatch of the
\* session, the loop is left at once, and the session returns exactly that
\* dispatch's site and normalized result.
C4_FirstLiveResultEndsLoop ==
    \A s \in SessionIds :
        firstLive[s].n > 0 =>
            /\ tries[s] = firstLive[s].n
            /\ Len(CallsOf(s, "dispatch")) = firstLive[s].n
            /\ pc[s] \in {"cleanup", "done"}
            /\ pc[s] = "done" => ret[s] = firstLive[s].pair

\* two dead sites were pruned before the third dispatch answered
C4_Witness ==
    /\ pc[1] = "done"
    /\ firstLive[1].n = 3
    /\ Len(dead_sites[1]) = 2
    /\ ret[1].site \in Endpoints

\* C5: no call to the store's remove_user_site by a session is followed by a
\* dispatch call of that session.
C5_RemovalAfterLastDispatch ==
    \A i, j \in 1..Len(trace) :
        (i < j /\ trace[i][1] = "remove" /\ trace[i][2] = trace[j][2])
        => trace[j][1] # "dispatch"

\* a session that left the loop by break after two dead sites and removed both
C5_Witness ==
    /\ pc[1] = "done"
    /\ firstLive[1].n > 0
    /\ Len(CallsOf(1, "dispatch")) = 3
    /\ Len(CallsOf(1, "remove")) = 2
    /\ store # loaded[1].sites

\* C6: when the loaded list is empty or loading raised, the session returns
\* (None, "No sites configured" with site_dead) and has called neither
\* dispatch nor remove_user_site.
C6_NoSitesConfigured ==
    \A s \in SessionIds :
        (pc[s] \notin {"off", "start"} /\ UserSitesOf(loaded[s]) = <<>>)
        => /\ pc[s] = "done"
           /\ ret[s] = NoSitesReturn
           /\ CallsOf(s, "dispatch") = <<>>
           /\ CallsOf(s, "remove") = <<>>

\* loading raised although the store holds sites
C6_Witness ==
    /\ pc[1] = "done"
    /\ loaded[1].raised
    /\ store # <<>>
    /\ ret[1] = NoSitesReturn

\* C7: after a removal raised or returned false the session goes on: it
\* attempts the removal of every dead site, in marking order, and returns the
\* pair decided by the state in which the attempt loop ended.
C7_RemovalFailureIsSwallowed ==
    \A s \in SessionIds :
        rmFailed[s] =>
            /\ pc[s] \in {"cleanup", "done"}
            /\ pc[s] = "done" =>
                /\ SitesRemoved(s) = dead_sites[s]
                /\ ret[s] = FinalReturn(atExit[s].user_sites, atExit[s].site_url,
                                        atExit[s].result)

\* the first removal raised (the site is still stored), the second went through
C7_Witness ==
    /\ pc[1] = "done"
    /\ rmFailed[1]
    /\ Len(dead_sites[1]) = 2
    /\ dead_sites[1][1] \in Range(store)
    /\ dead_sites[1][2] \in Range(loaded[1].sites)
    /\ dead_sites[1][2] \notin Range(store)
    /\ Len(CallsOf(1, "remove")) = 2

\* the result carries a dead-site signal: the flag or a reason text
HasDeadSignal(r) == r.isdict /\ ~ReasonRaises(r) /\ IsDead(r)

\* C14: a returned result that carries a dead-site signal, for a site of the
\* loaded list, comes with an empty working list.
C14_DeadResultOnlyWhenExhausted ==
    \A s \in SessionIds :
        (/\ pc[s] = "done"
         /\ HasDeadSignal(ret[s].result)
         /\ ret[s].site \in Range(loaded[s].sites))
        => user_sites[s] = <<>>

\* C15: a session makes at most max_tries dispatch calls when the caller
\* passes max_tries, and at most as many as the loaded list is long when not.
C15_DispatchesBounded ==
    \A s \in SessionIds :
        Len(CallsOf(s, "dispatch")) <=
            IF arg[s] = <<>> THEN Len(loaded[s].sites)
            ELSE IF arg[s][1] < 0 THEN 0 ELSE arg[s][1]

\* C20: the site a session returns was not passed to remove_user_site by that
\* session.
C20_ReturnedSiteNotRemoved ==
    \A s \in SessionIds :
        (pc[s] = "done" /\ ret[s].site # NoSite) => RemoveCount(s, ret[s].site) = 0

\* sites either session marked dead
DeadOfAny == UNION {Range(dead_sites[s]) : s \in SessionIds}

\* no dead site is left in the store, and every site a session loaded that no
\* session marked dead is still there
StoreConverged ==
    /\ Range(store) \cap DeadOfAny = {}
    /\ \A s \in SessionIds : (Range(loaded[s].sites) \ DeadOfAny) \subseteq Range(store)

\* C16: once two interleaved sessions over the shared store have both ended,
\* both have returned a pair (none ended in an exception) and the store holds
\* the endpoints they loaded minus those either of them classified dead.
C16_SessionsCompleteStoreConverges ==
    (\A s \in SessionIds : pc[s] \in {"done", "raised"})
    => /\ \A s \in SessionIds : pc[s] = "done"
       /\ StoreConverged

\* when both sessions return, the store has converged whatever the interleaving
BothReturnedStoreConverged ==
    (\A s \in SessionIds : pc[s] = "done") => StoreConverged

\* a removal of a site another session already removed leaves the store as it is
LaterRemovalIsNoOp ==
    [][\A s \in SessionIds :
           (/\ pc[s] = "cleanup"
            /\ idx'[s] = idx[s] + 1
            /\ dead_sites[s][idx[s]] \notin Range(store))
           => store' = store]_vars

(***************************************************************************)
(* Properties of save_live_cc_to_json                                      *)
(***************************************************************************)
TargetOf(c) == files[TargetPath(wk[c])]
TmpOf(c) == files[TmpPath(wk[c])]
PriorItems(c) == IF prior[c].target.exists THEN ItemsOf(prior[c].target.text) ELSE <<>>
Returned(c) == lpc[c] = "idle" /\ ncall[c] > 0 /\ "crash" \notin faults[c]
Logged(c, level) == <<level, c, ncall[c]>> \in logs
InTarget(c) ==
    /\ TargetOf(c).exists
    /\ IsArrayText(TargetOf(c).text)
    /\ \E i \in 1..Len(ItemsOf(TargetOf(c).text)) : ItemsOf(TargetOf(c).text)[i] = live_data[c]

\* C8: after N calls of one caller without any failure, started from no
\* file, the target is a JSON array of N records in call order, each with a
\* non-empty timestamp, and the last call added one element to the array it
\* found.
C8_SequentialAppends ==
    \A c \in CallerIds :
        (clean[c] /\ lpc[c] = "idle" /\ ncall[c] > 0) =>
            /\ TargetOf(c).exists
            /\ IsArrayText(TargetOf(c).text)
            /\ Len(ItemsOf(TargetOf(c).text)) = ncall[c]
            /\ \A i \in 1..ncall[c] :
                /\ ItemsOf(TargetOf(c).text)[i].payload = <<c, i>>
                /\ Len(ItemsOf(TargetOf(c).text)[i].timestamp) > 0
            /\ ItemsOf(TargetOf(c).text) = Append(PriorItems(c), live_data[c])

\* all the calls were made, over more than one second
C8_Witness ==
    /\ clean[1]
    /\ lpc[1] = "idle"
    /\ ncall[1] = MaxCalls
    /\ Len(ItemsOf(TargetOf(1).text)) = MaxCalls
    /\ ItemsOf(TargetOf(1).text)[1].timestamp # ItemsOf(TargetOf(1).text)[MaxCalls].timestamp

\* C9: with one writer the target is at every instant absent or a complete
\* JSON array; all through a call, and after a crash in it, the target holds
\* what it held when the call began.
C9_TargetNeverPartial ==
    \A c \in CallerIds :
        lpc[c] # "off" =>
            /\ TargetOf(c).exists => IsArrayText(TargetOf(c).text)
            /\ lpc[c] # "idle" => TargetOf(c) = prior[c].target
            /\ (lpc[c] = "idle" /\ "crash" \in faults[c]) => TargetOf(c) = prior[c].target

\* a crash in the middle of the temp write, over an existing log
C9_Witness ==
    /\ lpc[1] = "idle"
    /\ "crash" \in faults[1]
    /\ TmpOf(1).exists
    /\ Len(TmpOf(1).text) >= 2
    /\ ~IsArrayText(TmpOf(1).text)
    /\ TargetOf(1).exists
    /\ Len(ItemsOf(TargetOf(1).text)) >= 1

\* C10: a failing folder creation logs a warning and writes
\* nothing; a failing read, temp write or replace logs an error and leaves
\* the target as it was; every call puts its record in the target or logs a
\* failure.
C10_FailureLoggedTargetKept ==
    \A c \in CallerIds :
        Returned(c) =>
            /\ "mkdir" \in faults[c] =>
                /\ Logged(c, "warning")
                /\ TargetOf(c) = prior[c].target
                /\ TmpOf(c) = prior[c].tmp
            /\ faults[c] \cap {"read", "open", "write", "replace"} # {} =>
                /\ Logged(c, "error")
                /\ TargetOf(c) = prior[c].target
            /\ InTarget(c) \/ Logged(c, "warning") \/ Logged(c, "error")

\* What does hold of a failing call: a failing folder creation logs a warning
\* and writes nothing; a failing temp write or replace logs an error and
\* leaves the target as it was; a failing read alone is not logged, the
\* existing content is taken as the empty array and the target becomes the
\* array of the new record; every call puts its record in the target or logs
\* a failure.
WriteFailureLoggedTargetKept ==
    \A c \in CallerIds :
        Returned(c) =>
            /\ "mkdir" \in faults[c] =>
                /\ Logged(c, "warning")
                /\ TargetOf(c) = prior[c].target
                /\ TmpOf(c) = prior[c].tmp
            /\ faults[c] \cap {"open", "write", "replace"} # {} =>
                /\ Logged(c, "error")
                /\ TargetOf(c) = prior[c].target
            /\ faults[c] = {"read"} =>
                /\ TargetOf(c) = File(JsonDump(<<live_data[c]>>))
                /\ ~Logged(c, "error")
            /\ InTarget(c) \/ Logged(c, "warning") \/ Logged(c, "error")

\* the records a file's text shows, complete or not
RecordsIn(f) == SelectSeq(f.text, LAMBDA tok : tok[1] = "obj")

\* every record in the file is a record of caller c, in rising call order
OnlyRecordsOf(f, c) ==
    /\ \A i \in 1..Len(RecordsIn(f)) : RecordsIn(f)[i][2][1] = c
    /\ \A i, j \in 1..Len(RecordsIn(f)) : i < j => RecordsIn(f)[i][2][2] < RecordsIn(f)[j][2][2]

\* C17: callers appending concurrently for different workers hold the lock
\* only at the folder creation step, so a caller waiting for the lock finds
\* it free or held by a caller about to release it; each worker's target and
\* temp file hold only that worker's records, in call order; and a worker
\* whose calls all succeeded finds exactly its records, one per call, in its
\* target.
C17_WorkersDoNotInterfere ==
    /\ lock # 0 => lpc[lock] = "mkdir"
    /\ \A c \in CallerIds :
        /\ lpc[c] = "mkdir" => lock = c
        /\ OnlyRecordsOf(TargetOf(c), c)
        /\ OnlyRecordsOf(TmpOf(c), c)
        /\ TargetOf(c).exists => IsArrayText(TargetOf(c).text)
        /\ (clean[c] /\ lpc[c] = "idle" /\ ncall[c] > 0) =>
            /\ TargetOf(c).exists
            /\ Len(ItemsOf(TargetOf(c).text)) = ncall[c]
            /\ \A i \in 1..ncall[c] : ItemsOf(TargetOf(c).text)[i].payload = <<c, i>>

\* no call blocks forever: every call a worker begins returns
EveryCallReturns ==
    \A c \in CallerIds : (lpc[c] # "idle") ~> (lpc[c] = "idle")

\* both workers are in the middle of the temp write of their last call, each
\* over a target that holds its earlier records
C17_Witness ==
    \A c \in CallerIds :
        /\ lpc[c] = "write"
        /\ wpos[c] > 0
        /\ clean[c]
        /\ ncall[c] = MaxWorkerCalls
        /\ TargetOf(c).exists
        /\ Len(ItemsOf(TargetOf(c).text)) = MaxWorkerCalls - 1

\* C18: two callers appending concurrently for the same worker can lose a
\* record without any failure: when neither caller met a failure and both have
\* returned, a caller's last record is in the target unless the other caller's
\* last call began before that record was there, that is, unless the two
\* calls overlapped; and such a loss does happen (C18_Witness).
C18_LossOnlyByOverlap ==
    \A c, d \in CallerIds :
        (/\ c # d
         /\ clean[c] /\ lpc[c] = "idle" /\ ncall[c] > 0
         /\ clean[d] /\ lpc[d] = "idle")
        => \/ InTarget(c)
           \/ /\ ncall[d] > 0
              /\ Obj(live_data[c]) \notin Range(RecordsIn(prior[d].target))

\* both callers made one call, both logged success and no failure, and the
\* target lacks the record of caller 1
C18_Witness ==
    /\ \A c \in CallerIds :
        /\ clean[c]
        /\ lpc[c] = "idle"
        /\ ncall[c] = 1
        /\ Logged(c, "info")
        /\ ~Logged(c, "error")
        /\ ~Logged(c, "warning")
    /\ ~InTarget(1)

\* failures other than the one raised by the existing content itself
Injected == {"mkdir", "read", "open", "write", "replace", "crash"}

\* the call found a target that is no JSON array, met no other failure and
\* has returned
ReturnedOverNonArray(c) ==
    /\ Returned(c)
    /\ faults[c] \cap Injected = {}
    /\ prior[c].target.exists
    /\ ~IsArrayText(prior[c].target.text)

\* C19: an append call that finds a target holding anything but a JSON array
\* (undecodable text, or a JSON value that is no array) leaves the target
\* holding the array of its one record.
C19_NonArrayTreatedAsEmpty ==
    \A c \in CallerIds :
        ReturnedOverNonArray(c) => TargetOf(c) = File(JsonDump(<<live_data[c]>>))

\* what holds: undecodable text is taken as the empty array
UndecodableTreatedAsEmpty ==
    \A c \in CallerIds :
        (ReturnedOverNonArray(c) /\ JsonLoad(prior[c].target.text).kind = "error")
        => TargetOf(c) = File(JsonDump(<<live_data[c]>>))

(***************************************************************************)
(* Properties of parse_proxy_line                                          *)
(***************************************************************************)
\* the target made of the tokens the line was composed from
Embedded ==
    IF given.shape = 5
    THEN Target(given.host, IntOf(given.port), NoField, NoField)
    ELSE Target(given.host, IntOf(given.port), given.user, given.pass)

\* C11: the target parse_proxy_line returns for a line composed in one of the
\* five shapes from tokens the shape allows, padded with whitespace or not,
\* has the host, port, user and pass the line was composed from.
C11_ParseRecoversEmbedded ==
    (ppc = "done" /\ given.shape \in 1..5 /\ parsed.kind = "target") => parsed = Embedded

\* padding a composed line with whitespace does not change what it parses to
PaddingIgnored ==
    (ppc = "done" /\ given.shape \in 1..5)
    => parsed = parse_proxy_line(Compose(given.shape, given.host, given.port,
                                         given.user, given.pass))

\* C12: every target parse_proxy_line returns has a port from 1 to 65535.
C12_PortInRange ==
    (ppc = "done" /\ parsed.kind = "target") => (1 <= parsed.port /\ parsed.port <= 65535)

\* C13: parse_proxy_line returns a target or none for every line and never
\* raises.
C13_ParseNeverRaises ==
    ppc = "done" => parsed.kind \in {"target", "none"}

====
